---- MODULE Spec2Model ----
(***************************************************************************)
(* A model of the promptlog worker (src/src/worker.tsx): the /execute and  *)
(* /run routes that load untrusted code through the LOADER binding, and    *)
(* the /generate, /recent and /clear routes that talk to the PromptLog     *)
(* durable object.                                                         *)
(*                                                                         *)
(* Text is a sequence of UTF-16 code units (numbers).  The alphabets used  *)
(* are ASCII, so a code unit, a code point and a UTF-8 byte coincide.      *)
(***************************************************************************)
EXTENDS Integers, Sequences, FiniteSets, TLC

\* ------------------------------------------------------------- bounds
NumReq == 2          \* requests in one behaviour of the worker
NumLogReq == 4       \* requests in one behaviour of the prompt-log routes
MaxTextLen == 2      \* longest input / prompt of the request-URL specification
MaxEvict == 1        \* isolates the runtime discards in one behaviour
Margin == 30         \* prompt lengths taken on either side of a limit of the schema

\* ------------------------------------------------------ program constants
MinPromptLength == 1
MaxPromptLength == 16384
Radix == 36
\* Sum of the char codes of the fallback module literal of /run.  The
\* literal is written <<0>> and the code unit 0 counts for the whole sum.
DefaultModuleSum == 21832
RetryTimes == 2

VARIABLES
  LOADER,     \* TRUE when the deployment provisions the LOADER binding
  handles,    \* every isolate the loader created, in creation order
  evictions,  \* isolates the runtime discarded so far
  PROMPTS,    \* the PromptLog namespace: the entries of the object of each name
  appended,   \* history: the texts appended since the last clear
  req,        \* the requests: position in the handler, form fields, outcome
  calc        \* the record of the request-URL specification
vars == <<LOADER, handles, evictions, PROMPTS, appended, req, calc>>

\* --------------------------------------------------------------- text
\* 32 space, 37 %, 38 &, 39 ', 43 +, 61 =, 97 a, 113 q
TextChars == {32, 37, 38, 43, 97}

SeqsUpTo(S, n) == UNION {[1..k -> S] : k \in 0..n}

\* String.prototype.trim: white space and line terminators
IsSpace(c) == c \in {9, 10, 11, 12, 13, 32, 160}

RECURSIVE TrimStart(_)
TrimStart(s) ==
  IF s = <<>> THEN <<>>
  ELSE IF IsSpace(Head(s)) THEN TrimStart(Tail(s)) ELSE s

RECURSIVE TrimEnd(_)
TrimEnd(s) ==
  IF s = <<>> THEN <<>>
  ELSE IF IsSpace(s[Len(s)]) THEN TrimEnd(SubSeq(s, 1, Len(s) - 1)) ELSE s

Trim(s) == TrimEnd(TrimStart(s))

\* String.prototype.toUpperCase on ASCII
UpperChar(c) == IF c >= 97 /\ c <= 122 THEN c - 32 ELSE c
ToUpperCase(s) == [i \in 1..Len(s) |-> UpperChar(s[i])]

\* c.charCodeAt(0) of one element of [...code]
CharCodeAt0(c) == IF c = 0 THEN DefaultModuleSum ELSE c

\* [...code].reduce((a,c) => a + c.charCodeAt(0), 0)
RECURSIVE CharSum(_)
CharSum(s) == IF s = <<>> THEN 0 ELSE CharCodeAt0(Head(s)) + CharSum(Tail(s))

\* Number.prototype.toString(36)
Digit36(d) == IF d < 10 THEN 48 + d ELSE 87 + d

RECURSIVE ToString36(_)
ToString36(n) ==
  IF n < Radix THEN <<Digit36(n)>>
  ELSE Append(ToString36(n \div Radix), Digit36(n % Radix))

idHash(code) == ToString36(CharSum(code))

ToolPrefix == <<116, 111, 111, 108, 58>>
DemoPrefix == <<100, 101, 109, 111, 58>>

\* a key that also counts the isolates loaded so far
SaltedExecuteIsolateId(code) == ToolPrefix \o ToString36(CharSum(code) + Len(handles))
SaltedRunIsolateId(userModule) == DemoPrefix \o ToString36(CharSum(userModule) + Len(handles))

\* /run deriving its key under the prefix of /execute
ToolRunIsolateId(userModule) == ToolPrefix \o idHash(userModule)

ExecuteIsolateId(code) == ToolPrefix \o idHash(code)
RunIsolateId(userModule) == DemoPrefix \o idHash(userModule)

\* the fallback module of /run
DefaultModule == <<0>>

\* /run without the fallback
RunSubmittedCode(code) == code

RunUserModule(code) == IF Len(code) > 0 /\ Len(Trim(code)) > 0 THEN code ELSE DefaultModule

\* !code?.trim() of /execute
ExecuteNoCode(code) == Trim(code) = <<>>

\* ---------------------------------------------------------------- URLs
Unreserved(c) ==
  \/ c >= 48 /\ c <= 57
  \/ c >= 65 /\ c <= 90
  \/ c >= 97 /\ c <= 122
  \/ c \in {33, 39, 40, 41, 42, 45, 46, 95, 126}

HexDigit(d) == IF d < 10 THEN 48 + d ELSE 55 + d
HexValue(c) == IF c >= 48 /\ c <= 57 THEN c - 48
               ELSE IF c >= 65 /\ c <= 70 THEN c - 55
               ELSE IF c >= 97 /\ c <= 102 THEN c - 87
               ELSE -1

EncodeChar(c) ==
  IF Unreserved(c) THEN <<c>> ELSE <<37, HexDigit(c \div 16), HexDigit(c % 16)>>

\* the text put in the URL as it is
RawComponent(s) == s

RECURSIVE encodeURIComponent(_)
encodeURIComponent(s) ==
  IF s = <<>> THEN <<>> ELSE EncodeChar(Head(s)) \o encodeURIComponent(Tail(s))

\* new URL(...).toString(): the query state of a special scheme escapes
\* the apostrophe, the one character encodeURIComponent leaves that the
\* parser does not
RECURSIVE UrlSerializeQuery(_)
UrlSerializeQuery(s) ==
  IF s = <<>> THEN <<>>
  ELSE (IF Head(s) = 39 THEN <<37, 50, 55>> ELSE <<Head(s)>>)
       \o UrlSerializeQuery(Tail(s))

\* the query of the request: "q=" followed by the encoded text
RequestQuery(text) == UrlSerializeQuery(<<113, 61>> \o encodeURIComponent(text))

\* split a sequence at every occurrence of sep
RECURSIVE Split(_, _)
Split(s, sep) ==
  IF \A i \in 1..Len(s) : s[i] # sep THEN <<s>>
  ELSE LET i == CHOOSE j \in 1..Len(s) : s[j] = sep /\ \A k \in 1..(j - 1) : s[k] # sep
       IN <<SubSeq(s, 1, i - 1)>> \o Split(SubSeq(s, i + 1, Len(s)), sep)

\* application/x-www-form-urlencoded decoding of one name or value
RECURSIVE FormDecode(_)
FormDecode(s) ==
  IF s = <<>> THEN <<>>
  ELSE IF Head(s) = 43 THEN <<32>> \o FormDecode(Tail(s))
  ELSE IF /\ Head(s) = 37
          /\ Len(s) >= 3
          /\ HexValue(s[2]) >= 0
          /\ HexValue(s[3]) >= 0
       THEN <<16 * HexValue(s[2]) + HexValue(s[3])>> \o FormDecode(SubSeq(s, 4, Len(s)))
  ELSE <<Head(s)>> \o FormDecode(Tail(s))

\* new URL(req.url).searchParams as a sequence of <<name, value>>
PairOf(field) ==
  IF \E i \in 1..Len(field) : field[i] = 61
  THEN LET i == CHOOSE j \in 1..Len(field) : field[j] = 61 /\ \A k \in 1..(j - 1) : field[k] # 61
       IN <<FormDecode(SubSeq(field, 1, i - 1)), FormDecode(SubSeq(field, i + 1, Len(field)))>>
  ELSE <<FormDecode(field), <<>>>>

SearchParams(query) ==
  LET fields == Split(query, 38)
      kept == SelectSeq(fields, LAMBDA f : f # <<>>)
  IN [i \in 1..Len(kept) |-> PairOf(kept[i])]

\* searchParams.get("q"): the first value named q; <<-1>> stands for null
NullText == <<-1>>
SearchParamsGetQ(query) ==
  LET ps == SearchParams(query)
  IN IF \E i \in 1..Len(ps) : ps[i][1] = <<113>>
     THEN ps[CHOOSE i \in 1..Len(ps) : ps[i][1] = <<113>> /\ \A k \in 1..(i - 1) : ps[k][1] # <<113>>][2]
     ELSE NullText

\* input.trim() || prompt    (/execute)
ExecuteTestInput(input, prompt) == IF Trim(input) # <<>> THEN Trim(input) ELSE prompt

\* a decode that cuts a prompt too long down to the limit
RunResultCut(prompt) ==
  IF Len(prompt) > MaxPromptLength THEN SubSeq(prompt, 1, MaxPromptLength) ELSE prompt

\* Schema.decodeUnknown(PromptSchema)(prompt) ... .catch(() => "")   (/run)
RunResult(prompt) ==
  IF Len(prompt) >= MinPromptLength /\ Len(prompt) <= MaxPromptLength THEN prompt ELSE <<>>

\* how often the decode ran: Effect.retry({ times: 2 }) runs a failing
\* effect again, twice at most
DecodeAttempts(prompt) ==
  IF Len(prompt) >= MinPromptLength /\ Len(prompt) <= MaxPromptLength
  THEN 1 ELSE 1 + RetryTimes

\* result || prompt    (/run)
RunTestInput(prompt) == IF RunResult(prompt) # <<>> THEN RunResult(prompt) ELSE prompt

\* the default module: (searchParams.get("q") ?? "Hello").toUpperCase()
Hello == <<72, 101, 108, 108, 111>>
DefaultModuleBody(query) ==
  LET q == SearchParamsGetQ(query)
  IN ToUpperCase(IF q = NullText THEN Hello ELSE q)

Req == DOMAIN req

\* c.env.PROMPTS.idFromName(...): the object each route talks to.  Any name
\* names an object; "other" stands for every name that is not "prompts".
ObjectNames == {"prompts", "other"}
\* /recent reading another object than the routes that write
RecentOtherObjectName == "other"

\* /clear reaching another object than the routes that write and list
ClearOtherObjectName == "other"

RecentObjectName == "prompts"
ClearObjectName == "prompts"
GenerateObjectName == "prompts"
RunObjectName == "prompts"
WriteObjectName(r) == IF req[r].route = "run" THEN RunObjectName ELSE GenerateObjectName
\* the form fields of the requests: the empty and a blank code string, two
\* code strings of equal char-code sum (" a", "a "), one of another sum
\* ("aa"); an empty and a non-empty text
Codes == {<<>>, <<32>>, <<32, 97>>, <<97, 32>>, <<97, 97>>}
FormTexts == {<<>>, <<97>>}
Texts == SeqsUpTo(TextChars, MaxTextLen)

NoOutcome == [tag |-> "none", contentType |-> "", body |-> <<>>, message |-> ""]
IdleReq ==
  [pc |-> "idle", route |-> "none", code |-> <<>>, input |-> <<>>, prompt |-> <<>>,
   decodes |-> 0, isolateId |-> <<>>, handle |-> 0, found |-> "none", fetches |-> 0,
   query |-> <<>>, writes |-> 0, wrote |-> "no", at |-> 0,
   list |-> <<>>, expect |-> {}, outcome |-> NoOutcome]

\* ------------------------------------------------------------ the loader
\* the WorkerCode the callback of /execute returns
ExecuteWorkerCode(code) ==
  [compatibilityDate |-> "2025-06-01", mainModule |-> "main.js", modules |-> code,
   env |-> "dynamic-tool", globalOutbound |-> "null"]

\* a WorkerCode that leaves globalOutbound out
RunWorkerCodeWithEgress(userModule) ==
  [compatibilityDate |-> "2025-06-01", mainModule |-> "main.js", modules |-> userModule,
   env |-> "dynamic-sandbox", globalOutbound |-> "undefined"]

\* the WorkerCode the callback of /run returns
RunWorkerCode(userModule) ==
  [compatibilityDate |-> "2025-06-01", mainModule |-> "main.js", modules |-> userModule,
   env |-> "dynamic-sandbox", globalOutbound |-> "null"]

Live(id) ==
  {h \in 1..Len(handles) : handles[h].id = id /\ handles[h].state \in {"building", "ready"}}

\* LOADER.get that builds an isolate at every call
LoaderGetAnew(id, workerCode) ==
  Append(handles, [id |-> id, workerCode |-> workerCode, state |-> "building"])

\* LOADER.get(id, callback): the isolate loaded under id when there is one,
\* else a new one built from what the callback returns
LoaderGetHandle(id) == IF Live(id) # {} THEN CHOOSE h \in Live(id) : TRUE ELSE Len(handles) + 1
LoaderGet(id, workerCode) ==
  IF Live(id) # {} THEN handles
  ELSE Append(handles, [id |-> id, workerCode |-> workerCode, state |-> "building"])

\* what LOADER.get found loaded under id: "none" when it had to build
LoaderFound(id) == IF Live(id) # {} THEN handles[LoaderGetHandle(id)].state ELSE "none"

Fetching(h) == \E r \in Req : req[r].pc = "fetching" /\ req[r].handle = h

\* the isolate finishes loading its module
LoaderBuildDone(h) ==
  /\ h \in 1..Len(handles)
  /\ handles[h].state = "building"
  /\ handles' = [handles EXCEPT ![h].state = "ready"]
  /\ UNCHANGED <<LOADER, evictions, PROMPTS, appended, req, calc>>

\* the module does not load; the loader forgets the isolate
LoaderBuildFails(h) ==
  /\ h \in 1..Len(handles)
  /\ handles[h].state = "building"
  /\ handles[h].workerCode.modules # DefaultModule
  /\ handles' = [handles EXCEPT ![h].state = "failed"]
  /\ UNCHANGED <<LOADER, evictions, PROMPTS, appended, req, calc>>

\* the runtime discards an isolate nobody is waiting for
LoaderEvict(h) ==
  /\ h \in 1..Len(handles)
  /\ handles[h].state = "ready"
  /\ ~Fetching(h)
  /\ evictions < MaxEvict
  /\ evictions' = evictions + 1
  /\ handles' = [handles EXCEPT ![h].state = "evicted"]
  /\ UNCHANGED <<LOADER, PROMPTS, appended, req, calc>>

\* the runtime discards an isolate a request is waiting for
LoaderExpire(h) ==
  /\ h \in 1..Len(handles)
  /\ handles[h].state = "ready"
  /\ Fetching(h)
  /\ evictions < MaxEvict
  /\ evictions' = evictions + 1
  /\ handles' = [handles EXCEPT ![h].state = "expired"]
  /\ UNCHANGED <<LOADER, PROMPTS, appended, req, calc>>

\* what endpoint.fetch(url) settles to: a response, or a rejection
Response(contentType, body) ==
  [ok |-> TRUE, contentType |-> contentType, body |-> body, message |-> ""]
Rejection(message) ==
  [ok |-> FALSE, contentType |-> "", body |-> <<>>, message |-> message]

EndpointFetch(h, query) ==
  IF handles[h].state = "failed" THEN {Rejection("module failed to load")}
  ELSE IF handles[h].state = "expired" THEN {Rejection("isolate expired")}
  ELSE IF handles[h].state # "ready" THEN {}
  ELSE IF handles[h].workerCode.modules = DefaultModule
       THEN {Response("text/plain", DefaultModuleBody(query))}
       ELSE {Response("", SearchParamsGetQ(query)), Rejection("module threw")}

\* requests are numbered in the order they arrive
\* a handler without the check of the binding
LoaderAssumed == FALSE

\* !c.env.LOADER
LoaderMissing == ~LOADER

Started(r) == IF r = 1 THEN TRUE ELSE req[r - 1].pc # "idle"

Outcome(tag, contentType, body, message) ==
  [tag |-> tag, contentType |-> contentType, body |-> body, message |-> message]

\* a handler that calls endpoint.fetch again when the call was rejected,
\* as often as the decode of the prompt is retried
FetchRetried(mine, out, settled) ==
  IF ~out.ok /\ mine.fetches <= RetryTimes
  THEN [mine EXCEPT !.fetches = @ + 1]
  ELSE settled

\* await endpoint.fetch(url): one call, and the handler goes on with what
\* it settled to.  `mine` is the request as the settlement finds it,
\* `settled` the request as the rest of the handler leaves it.
FetchOnce(mine, out, settled) == settled

\* ------------------------------------------------------- POST /execute
\* the handler up to its await of endpoint.fetch
Execute(r) ==
  /\ req[r].pc = "idle"
  /\ Started(r)
  /\ \E code \in Codes, input \in FormTexts, prompt \in FormTexts :
       LET form == [IdleReq EXCEPT !.route = "execute", !.code = code,
                                   !.input = input, !.prompt = prompt]
           id == ExecuteIsolateId(code)
       IN IF ExecuteNoCode(code)
          THEN /\ req' = [req EXCEPT ![r] = [form EXCEPT !.pc = "done",
                            !.outcome = Outcome("NoCode", "text/html", <<>>, "")]]
               /\ handles' = handles
          ELSE IF LoaderMissing
          THEN /\ req' = [req EXCEPT ![r] = [form EXCEPT !.pc = "done", !.isolateId = id,
                            !.outcome = Outcome("RuntimeUnavailable", "text/html", <<>>, "")]]
               /\ handles' = handles
          ELSE /\ handles' = LoaderGet(id, ExecuteWorkerCode(code))
               /\ req' = [req EXCEPT ![r] = [form EXCEPT !.pc = "fetching", !.isolateId = id,
                            !.handle = LoaderGetHandle(id), !.found = LoaderFound(id),
                            !.fetches = @ + 1,
                            !.query = RequestQuery(ExecuteTestInput(input, prompt))]]
  /\ UNCHANGED <<LOADER, evictions, PROMPTS, appended, calc>>

\* the try / catch around endpoint.fetch and out.text()
ExecuteAfterFetch(r) ==
  /\ req[r].pc = "fetching"
  /\ req[r].route = "execute"
  /\ \E out \in EndpointFetch(req[r].handle, req[r].query) :
       req' = [req EXCEPT ![r] = FetchOnce(req[r], out,
                 [req[r] EXCEPT !.pc = "done",
                    !.outcome =
                       IF out.ok
                       THEN Outcome("Result",
                                    IF out.contentType # "" THEN out.contentType ELSE "text/plain",
                                    out.body, "")
                       ELSE Outcome("ExecutionError", "text/html", <<>>, out.message)])]
  /\ UNCHANGED <<LOADER, handles, evictions, PROMPTS, appended, calc>>

\* ----------------------------------------------------------- POST /run
\* the handler up to its await of the write to PROMPTS
Run(r) ==
  /\ req[r].pc = "idle"
  /\ Started(r)
  /\ \E code \in Codes, prompt \in FormTexts :
       req' = [req EXCEPT ![r] = [IdleReq EXCEPT !.route = "run", !.code = code,
                                    !.prompt = prompt, !.pc = "writing", !.writes = @ + 1,
                                    !.decodes = DecodeAttempts(prompt)]]
  /\ UNCHANGED <<LOADER, handles, evictions, PROMPTS, appended, calc>>

\* the body of the write a request sends to PROMPTS
WriteBody(r) == IF req[r].route = "run" THEN RunResult(req[r].prompt) ELSE req[r].prompt

\* a handler that sends the write and goes on without awaiting it
WriteNotAwaited(r, failed) == req[r].pc \in {"writing", "wrote"}

\* the write settled: fulfilled once the store answered, or rejected (the
\* store unreachable, before or after it applied the write)
WriteSettles(r, failed) ==
  /\ req[r].pc \in {"writing", "wrote"}
  /\ failed \/ req[r].pc = "wrote"

\* a write whose rejection is not caught
RethrowWriteFailure(failed, mine, next) ==
  IF failed
  THEN [mine EXCEPT !.pc = "done", !.outcome = [tag |-> "Uncaught", contentType |-> "",
                                                body |-> <<>>, message |-> "store unreachable"]]
  ELSE next

\* .catch(() => {}) on the write: the handler goes on as after a fulfilled
\* write.  `mine` is the request as the rejection finds it, `next` the
\* request as the rest of the handler leaves it.
SwallowWriteFailure(failed, mine, next) == next

\* from the settled write to the await of endpoint.fetch
RunAfterWrite(r) ==
  /\ req[r].route = "run"
  /\ \E failed \in BOOLEAN :
       /\ WriteSettles(r, failed)
       /\ LET userModule == RunUserModule(req[r].code)
              id == RunIsolateId(userModule)
              mine == [req[r] EXCEPT !.wrote = IF failed THEN "failed" ELSE "ok",
                                     !.isolateId = id]
          IN IF LoaderMissing
             THEN /\ req' = [req EXCEPT ![r] = SwallowWriteFailure(failed, mine,
                               [mine EXCEPT !.pc = "done",
                                  !.outcome = Outcome("RuntimeUnavailable", "text/html", <<>>, "")])]
                  /\ handles' = handles
             ELSE /\ handles' = LoaderGet(id, RunWorkerCode(userModule))
                  /\ req' = [req EXCEPT ![r] = SwallowWriteFailure(failed, mine,
                               [mine EXCEPT !.pc = "fetching",
                                  !.handle = LoaderGetHandle(id), !.found = LoaderFound(id),
                                  !.fetches = @ + 1,
                                  !.query = RequestQuery(RunTestInput(req[r].prompt))])]
  /\ UNCHANGED <<LOADER, evictions, PROMPTS, appended, calc>>

\* endpoint.fetch settled; nothing catches a rejection here, so it leaves
\* the handler
RunAfterFetch(r) ==
  /\ req[r].pc = "fetching"
  /\ req[r].route = "run"
  /\ \E out \in EndpointFetch(req[r].handle, req[r].query) :
       req' = [req EXCEPT ![r] = FetchOnce(req[r], out,
                 [req[r] EXCEPT !.pc = "done",
                    !.outcome =
                       IF out.ok
                       THEN Outcome("Result", "text/html", out.body, "")
                       ELSE Outcome("Uncaught", "", <<>>, out.message)])]
  /\ UNCHANGED <<LOADER, handles, evictions, PROMPTS, appended, calc>>

\* ------------------------------------------------------ POST /generate
Generate(r) ==
  /\ req[r].pc = "idle"
  /\ Started(r)
  /\ \E prompt \in FormTexts :
       LET form == [IdleReq EXCEPT !.route = "generate", !.prompt = prompt]
       IN req' = [req EXCEPT ![r] =
                    IF Trim(prompt) = <<>>
                    THEN [form EXCEPT !.pc = "done",
                                      !.outcome = Outcome("Redirect", "", <<47>>, "")]
                    ELSE [form EXCEPT !.pc = "writing", !.writes = @ + 1]]
  /\ UNCHANGED <<LOADER, handles, evictions, PROMPTS, appended, calc>>

\* "/generate?prompt="
GeneratePath == <<47, 103, 101, 110, 101, 114, 97, 116, 101, 63, 112, 114, 111, 109, 112, 116, 61>>

GenerateAfterWrite(r) ==
  /\ req[r].route = "generate"
  /\ \E failed \in BOOLEAN :
       /\ WriteSettles(r, failed)
       /\ LET mine == [req[r] EXCEPT !.wrote = IF failed THEN "failed" ELSE "ok"]
          IN req' = [req EXCEPT ![r] = SwallowWriteFailure(failed, mine,
                       [mine EXCEPT !.pc = "done",
                          !.outcome = Outcome("Redirect", "",
                                         GeneratePath \o encodeURIComponent(req[r].prompt), "")])]
  /\ UNCHANGED <<LOADER, handles, evictions, PROMPTS, appended, calc>>

\* --------------------------------------------------------- GET /recent
Recent(r) ==
  /\ req[r].pc = "idle"
  /\ Started(r)
  /\ req' = [req EXCEPT ![r] = [IdleReq EXCEPT !.route = "recent", !.pc = "listing"]]
  /\ UNCHANGED <<LOADER, handles, evictions, PROMPTS, appended, calc>>

RecentAfterList(r) ==
  /\ req[r].pc = "listed"
  /\ req' = [req EXCEPT ![r].pc = "done", ![r].outcome = Outcome("Recent", "text/html", <<>>, "")]
  /\ UNCHANGED <<LOADER, handles, evictions, PROMPTS, appended, calc>>

\* ------------------------------------------------------- DELETE /clear
Clear(r) ==
  /\ req[r].pc = "idle"
  /\ Started(r)
  /\ req' = [req EXCEPT ![r] = [IdleReq EXCEPT !.route = "clear", !.pc = "clearing"]]
  /\ UNCHANGED <<LOADER, handles, evictions, PROMPTS, appended, calc>>

ClearAfterClear(r) ==
  /\ req[r].pc = "cleared"
  /\ req' = [req EXCEPT ![r].pc = "done", ![r].outcome = Outcome("Cleared", "", <<>>, "")]
  /\ UNCHANGED <<LOADER, handles, evictions, PROMPTS, appended, calc>>

\* ------------------------------------------------ the PromptLog objects
\* The object takes the requests sent to it one at a time; `at` numbers a
\* request in the order the object took them.
Served == {x \in Req : req[x].at # 0}
Ticket == Cardinality(Served) + 1

\* POST /write: one entry more
PromptLogWrite(r) ==
  /\ req[r].pc = "writing"
  /\ PROMPTS' = [PROMPTS EXCEPT ![WriteObjectName(r)] = Append(@, WriteBody(r))]
  /\ appended' = appended \cup {WriteBody(r)}
  /\ req' = [req EXCEPT ![r].pc = "wrote", ![r].at = Ticket]
  /\ UNCHANGED <<LOADER, handles, evictions, calc>>

\* GET /list: the entries
PromptLogList(r) ==
  /\ req[r].pc = "listing"
  /\ req' = [req EXCEPT ![r].pc = "listed", ![r].list = PROMPTS[RecentObjectName],
                                ![r].expect = appended, ![r].at = Ticket]
  /\ UNCHANGED <<LOADER, handles, evictions, PROMPTS, appended, calc>>

\* DELETE /clear: no entry left
PromptLogClear(r) ==
  /\ req[r].pc = "clearing"
  /\ PROMPTS' = [PROMPTS EXCEPT ![ClearObjectName] = <<>>]
  /\ appended' = {}
  /\ req' = [req EXCEPT ![r].pc = "cleared", ![r].at = Ticket]
  /\ UNCHANGED <<LOADER, handles, evictions, calc>>

\* ------------------------------------------------------ specification
NoCalc == [op |-> "none"]

Init ==
  /\ LOADER \in BOOLEAN
  /\ handles = <<>>
  /\ evictions = 0
  /\ PROMPTS = [n \in ObjectNames |-> <<>>]
  /\ appended = {}
  /\ req = [r \in 1..NumReq |-> IdleReq]
  /\ calc = NoCalc

Next ==
  \/ \E r \in Req : Execute(r)
  \/ \E r \in Req : ExecuteAfterFetch(r)
  \/ \E r \in Req : Run(r)
  \/ \E r \in Req : RunAfterWrite(r)
  \/ \E r \in Req : RunAfterFetch(r)
  \/ \E r \in Req : Generate(r)
  \/ \E r \in Req : GenerateAfterWrite(r)
  \/ \E r \in Req : Recent(r)
  \/ \E r \in Req : RecentAfterList(r)
  \/ \E r \in Req : Clear(r)
  \/ \E r \in Req : ClearAfterClear(r)
  \/ \E r \in Req : PromptLogWrite(r)
  \/ \E r \in Req : PromptLogList(r)
  \/ \E r \in Req : PromptLogClear(r)
  \/ \E h \in 1..Len(handles) : LoaderBuildDone(h)
  \/ \E h \in 1..Len(handles) : LoaderBuildFails(h)
  \/ \E h \in 1..Len(handles) : LoaderEvict(h)

Spec == Init /\ [][Next]_vars

\* ------------------------------------------- the prompt-log routes alone
\* /generate, /recent and /clear, which reach nothing but the PromptLog
\* object, with more requests than the worker's specification: an append,
\* a list, a clear and a second list can follow one another.
InitLog ==
  /\ LOADER = FALSE
  /\ handles = <<>>
  /\ evictions = 0
  /\ PROMPTS = [n \in ObjectNames |-> <<>>]
  /\ appended = {}
  /\ req = [r \in 1..NumLogReq |-> IdleReq]
  /\ calc = NoCalc

NextLog ==
  \/ \E r \in Req : Generate(r)
  \/ \E r \in Req : GenerateAfterWrite(r)
  \/ \E r \in Req : Recent(r)
  \/ \E r \in Req : RecentAfterList(r)
  \/ \E r \in Req : Clear(r)
  \/ \E r \in Req : ClearAfterClear(r)
  \/ \E r \in Req : PromptLogWrite(r)
  \/ \E r \in Req : PromptLogList(r)
  \/ \E r \in Req : PromptLogClear(r)

SpecLog == InitLog /\ [][NextLog]_vars

\* ------------------------------ a runtime that expires isolates in use
\* /execute and /run with the LOADER binding, under a runtime that may
\* discard an isolate while a request waits for its answer; the call then
\* rejects.
InitExpire ==
  /\ LOADER = TRUE
  /\ handles = <<>>
  /\ evictions = 0
  /\ PROMPTS = [n \in ObjectNames |-> <<>>]
  /\ appended = {}
  /\ req = [r \in 1..NumReq |-> IdleReq]
  /\ calc = NoCalc

NextExpire ==
  \/ \E r \in Req : Execute(r)
  \/ \E r \in Req : ExecuteAfterFetch(r)
  \/ \E r \in Req : Run(r)
  \/ \E r \in Req : RunAfterWrite(r)
  \/ \E r \in Req : RunAfterFetch(r)
  \/ \E r \in Req : PromptLogWrite(r)
  \/ \E h \in 1..Len(handles) : LoaderBuildDone(h)
  \/ \E h \in 1..Len(handles) : LoaderBuildFails(h)
  \/ \E h \in 1..Len(handles) : LoaderEvict(h)
  \/ \E h \in 1..Len(handles) : LoaderExpire(h)

SpecExpire == InitExpire /\ [][NextExpire]_vars

\* --------------------------------------------- the request URL on its own
\* The text a request hands to the module, for every input and prompt up to
\* MaxTextLen over an alphabet with the characters a query string treats
\* specially.
UrlExecute ==
  /\ calc.op = "start"
  /\ \E input \in Texts, prompt \in Texts :
       calc' = [op |-> "execute", input |-> input, prompt |-> prompt,
                query |-> RequestQuery(ExecuteTestInput(input, prompt))]
  /\ UNCHANGED <<LOADER, handles, evictions, PROMPTS, appended, req>>

UrlRun ==
  /\ calc.op = "start"
  /\ \E prompt \in Texts :
       calc' = [op |-> "run", input |-> <<>>, prompt |-> prompt,
                query |-> RequestQuery(RunTestInput(prompt))]
  /\ UNCHANGED <<LOADER, handles, evictions, PROMPTS, appended, req>>

InitUrl ==
  /\ LOADER = TRUE
  /\ handles = <<>>
  /\ evictions = 0
  /\ PROMPTS = [n \in ObjectNames |-> <<>>]
  /\ appended = {}
  /\ req = [r \in 1..NumReq |-> IdleReq]
  /\ calc = [op |-> "start"]

NextUrl == UrlExecute \/ UrlRun

SpecUrl == InitUrl /\ [][NextUrl]_vars

\* --------------------------------------------- the isolate keys on their own
\* The keys the two routes derive, for every pair of code strings up to
\* MaxTextLen: /execute derives one for code that is not blank, /run for
\* the module it runs.  NullText stands for no key derived.
KeyPair ==
  /\ calc.op = "codes"
  /\ \E a \in Texts, b \in Texts :
       calc' = [op |-> "keys", a |-> a, b |-> b,
                tool |-> IF ExecuteNoCode(a) THEN NullText ELSE ExecuteIsolateId(a),
                demo |-> RunIsolateId(RunUserModule(b))]
  /\ UNCHANGED <<LOADER, handles, evictions, PROMPTS, appended, req>>

InitKey ==
  /\ LOADER = TRUE
  /\ handles = <<>>
  /\ evictions = 0
  /\ PROMPTS = [n \in ObjectNames |-> <<>>]
  /\ appended = {}
  /\ req = [r \in 1..NumReq |-> IdleReq]
  /\ calc = [op |-> "codes"]

NextKey == KeyPair

SpecKey == InitKey /\ [][NextKey]_vars

\* ------------------------------------------ the prompt of /run on its own
\* What /run writes to the log and what it hands to the module, for prompts
\* whose length lies within Margin of 0 and of the upper limit of the
\* schema, made of one character repeated.
PromptLengths == (0..Margin) \cup ((MaxPromptLength - Margin)..(MaxPromptLength + Margin))

RunPrompt ==
  /\ calc.op = "form"
  /\ \E n \in PromptLengths, c \in {32, 97} :
       LET prompt == [i \in 1..n |-> c]
       IN calc' = [op |-> "run", prompt |-> prompt,
                   decodes |-> DecodeAttempts(prompt),
                   body |-> RunResult(prompt),
                   testInput |-> RunTestInput(prompt)]
  /\ UNCHANGED <<LOADER, handles, evictions, PROMPTS, appended, req>>

InitPrompt ==
  /\ LOADER = TRUE
  /\ handles = <<>>
  /\ evictions = 0
  /\ PROMPTS = [n \in ObjectNames |-> <<>>]
  /\ appended = {}
  /\ req = [r \in 1..NumReq |-> IdleReq]
  /\ calc = [op |-> "form"]

NextPrompt == RunPrompt

SpecPrompt == InitPrompt /\ [][NextPrompt]_vars

\* ================================================================ claims
\* the module a request asks to run
Module(r) == IF req[r].route = "run" THEN RunUserModule(req[r].code) ELSE req[r].code
Dispatched(r) == req[r].handle # 0
HandlesOf(id) == {h \in 1..Len(handles) : handles[h].id = id}
\* no isolate of this key failed to load or was discarded
FirstAccess(id) == \A h \in HandlesOf(id) : handles[h].state \in {"building", "ready"}

\* C1: requests that ask the same route to run the same module, or present
\* the same isolate key, while no isolate of that key has been lost, are all
\* dispatched to one handle, and the loader built exactly one isolate for
\* that key.
C1_OneBuildPerKey ==
  \A r1 \in Req : \A r2 \in Req :
    (/\ Dispatched(r1)
     /\ Dispatched(r2)
     /\ \/ req[r1].isolateId = req[r2].isolateId
        \/ req[r1].route = req[r2].route /\ Module(r1) = Module(r2)
     /\ FirstAccess(req[r1].isolateId)
     /\ FirstAccess(req[r2].isolateId))
    => /\ req[r1].handle = req[r2].handle
       /\ Cardinality(HandlesOf(req[r1].isolateId)) = 1

\* two /execute requests with the same code wait on one isolate that is
\* still loading
C1_Witness ==
  /\ Len(handles) = 1
  /\ handles[1].state = "building"
  /\ \A r \in Req : /\ req[r].pc = "fetching"
                    /\ req[r].route = "execute"
                    /\ req[r].code = <<97, 97>>
                    /\ req[r].handle = 1

\* C2: different code strings sent through one route get different isolate
\* keys, and a request is only ever dispatched to an isolate built from the
\* module it asked to run.
C2_OwnContext ==
  /\ \A r1 \in Req : \A r2 \in Req :
       (/\ Dispatched(r1)
        /\ Dispatched(r2)
        /\ req[r1].route = req[r2].route
        /\ Module(r1) # Module(r2))
       => /\ req[r1].isolateId # req[r2].isolateId
          /\ req[r1].handle # req[r2].handle
  /\ \A r \in Req :
       Dispatched(r) => handles[req[r].handle].workerCode.modules = Module(r)

C4_NoEgress ==
  \A h \in 1..Len(handles) : handles[h].workerCode.globalOutbound = "null"

\* an isolate built by /execute and one built by /run
C4_Witness ==
  /\ Len(handles) = 2
  /\ handles[1].workerCode.env # handles[2].workerCode.env

C6_FailureContained ==
  \A r \in Req :
    (req[r].route \in {"execute", "run"} /\ req[r].pc = "done")
    => /\ req[r].outcome.tag \in {"Result", "ExecutionError", "RuntimeUnavailable", "NoCode"}
       /\ req[r].outcome.tag = "ExecutionError" => req[r].outcome.message # ""

\* C7: a request whose write to the prompt log was rejected went on all the
\* same: /generate ended in the redirect to its prompt; /run ended in
\* RuntimeUnavailable without the LOADER binding and was dispatched to an
\* isolate with it, and a failure it ended in is the module's, never the
\* store's.
C7_LogFailureSwallowed ==
  \A r \in Req :
    req[r].wrote = "failed" =>
      /\ req[r].pc \in {"fetching", "done"}
      /\ req[r].route = "generate" =>
           /\ req[r].pc = "done"
           /\ req[r].outcome.tag = "Redirect"
           /\ req[r].outcome.body = GeneratePath \o encodeURIComponent(req[r].prompt)
      /\ (req[r].route = "run" /\ ~LOADER) =>
           req[r].pc = "done" /\ req[r].outcome.tag = "RuntimeUnavailable"
      /\ (req[r].route = "run" /\ LOADER) =>
           /\ Dispatched(r)
           /\ req[r].pc = "done" =>
                \/ req[r].outcome.tag = "Result"
                \/ /\ req[r].outcome.tag = "Uncaught"
                   /\ Module(r) # DefaultModule
                   /\ req[r].outcome.message \in {"module threw", "module failed to load"}

\* a /run request whose write was rejected and that returned the module's
\* response, and a /generate request whose write was rejected
C7_Witness ==
  /\ req[1].route = "run"
  /\ req[1].wrote = "failed"
  /\ req[1].pc = "done"
  /\ req[1].outcome.tag = "Result"
  /\ req[2].route = "generate"
  /\ req[2].wrote = "failed"
  /\ req[2].pc = "done"

\* C8: a list returns every text appended since the last clear, and returns
\* the empty sequence when nothing was appended since the last clear.
C8_ListAfterAppendAndClear ==
  \A r \in Req :
    (req[r].route = "recent" /\ req[r].pc \in {"listed", "done"})
    => /\ \A x \in req[r].expect : \E i \in 1..Len(req[r].list) : req[r].list[i] = x
       /\ req[r].expect = {} => req[r].list = <<>>

\* an append, a list that returned the text appended, then a clear, then a
\* list that returned nothing
C8_Witness ==
  /\ req[1].route = "generate"
  /\ req[1].wrote = "ok"
  /\ req[2].route = "recent"
  /\ req[2].pc = "done"
  /\ req[2].expect = {<<97>>}
  /\ req[2].list = <<  <<97>>  >>
  /\ req[3].route = "clear"
  /\ req[3].pc = "done"
  /\ req[4].route = "recent"
  /\ req[4].pc = "done"
  /\ req[4].expect = {}
  /\ req[4].list = <<>>

C10_InputOrPrompt ==
  calc.op \in {"execute", "run"} =>
    SearchParams(calc.query) =
      <<  <<  <<113>>, IF calc.input # <<>> THEN calc.input ELSE calc.prompt  >>  >>

\* C10 as amended: the request has exactly one query parameter, q, whose
\* value on /execute is the input with the white space around it trimmed
\* when that is not empty and the prompt otherwise, and on /run the prompt.
C10_TrimmedInputOrPrompt ==
  calc.op \in {"execute", "run"} =>
    SearchParams(calc.query) =
      <<  <<  <<113>>,
              IF calc.op = "execute" /\ Trim(calc.input) # <<>>
              THEN Trim(calc.input) ELSE calc.prompt  >>  >>

\* the input " +": trimmed, and its + must reach the module as a +
C10_Witness ==
  /\ calc.op = "execute"
  /\ calc.input = <<32, 43>>
  /\ calc.prompt = <<38, 97>>
  /\ SearchParamsGetQ(calc.query) = <<43>>

\* C11: whenever a request is dispatched while an isolate of its key is
\* loaded and ready, it is dispatched to that isolate and the step builds
\* nothing.
C11_ReadyIsReused ==
  [][\A r \in Req :
       (req[r].handle = 0 /\ req'[r].handle # 0) =>
         \A h \in 1..Len(handles) :
           (handles[h].id = req'[r].isolateId /\ handles[h].state = "ready")
           => req'[r].handle = h /\ handles' = handles]_vars

\* the same code a second time through /execute, after the first request
\* got its result: dispatched to the isolate that is there, the only one
C11_Witness ==
  /\ Len(handles) = 1
  /\ req[1].route = "execute"
  /\ req[1].outcome.tag = "Result"
  /\ req[2].route = "execute"
  /\ req[2].code = req[1].code
  /\ req[2].found = "ready"
  /\ req[2].handle = req[1].handle
  /\ req[2].outcome.tag = "Result"

\* C12: a request that ended in the isolate-expired error had invoked the
\* module twice: once on the isolate the runtime discarded, once more after
\* a rebuild.
C12_RebuildOnce ==
  \A r \in Req :
    (req[r].pc = "done" /\ req[r].outcome.message = "isolate expired")
    => req[r].fetches = 2

\* C13: no request calls endpoint.fetch more than once, a request that was
\* dispatched called it exactly once whether it ended in a result or in a
\* failure, and the decode of the prompt is what ran up to three times.
C13_InvokedAtMostOnce ==
  \A r \in Req :
    /\ req[r].fetches <= 1
    /\ req[r].fetches = (IF Dispatched(r) THEN 1 ELSE 0)
    /\ (req[r].pc = "done" /\ req[r].outcome.tag \in {"Result", "ExecutionError", "Uncaught"})
       => req[r].fetches = 1
    /\ req[r].decodes <= 1 + RetryTimes

\* a /run request whose prompt was decoded three times and whose module
\* threw, and a /execute request whose isolate the runtime discarded: one
\* call each
C13_Witness ==
  /\ req[1].route = "run"
  /\ req[1].decodes = 3
  /\ req[1].outcome.tag = "Uncaught"
  /\ req[1].outcome.message = "module threw"
  /\ req[1].fetches = 1
  /\ req[2].route = "execute"
  /\ req[2].outcome.tag = "ExecutionError"
  /\ req[2].outcome.message = "isolate expired"
  /\ req[2].fetches = 1

\* the request the object took as its k-th, and the entries of the object
\* after the first k requests it took, applied one after the other
OpAt(k) == CHOOSE x \in Req : req[x].at = k

RECURSIVE Replay(_)
Replay(k) ==
  IF k = 0 THEN <<>>
  ELSE IF req[OpAt(k)].route = "clear" THEN <<>>
  ELSE IF req[OpAt(k)].route = "recent" THEN Replay(k - 1)
  ELSE Append(Replay(k - 1),
              IF req[OpAt(k)].route = "run" /\ Len(req[OpAt(k)].prompt) \notin 1..16384
              THEN <<>> ELSE req[OpAt(k)].prompt)

\* C14: every route addresses the object named "prompts"; the appends,
\* lists and clears the object took stand in one total order, every list
\* returned exactly the entries that the appends and clears before it in
\* that order leave, and the object holds what all of them leave.
C14_Linearizable ==
  /\ {RecentObjectName, ClearObjectName, GenerateObjectName, RunObjectName} = {"prompts"}
  /\ \A r1 \in Served : \A r2 \in Served : req[r1].at = req[r2].at => r1 = r2
  /\ \A r \in Served : req[r].at <= Cardinality(Served)
  /\ \A r \in Served : req[r].route = "recent" => req[r].list = Replay(req[r].at - 1)
  /\ PROMPTS["prompts"] = Replay(Cardinality(Served))

\* a clear that arrived after an append and was taken before it, a list
\* that returned the entry, and an append after the list
C14_Witness ==
  /\ req[1].route = "generate"
  /\ req[1].at = 2
  /\ req[2].route = "clear"
  /\ req[2].at = 1
  /\ req[3].route = "recent"
  /\ req[3].at = 3
  /\ req[3].list = <<  <<97>>  >>
  /\ req[4].route = "generate"
  /\ req[4].at = 4
  /\ PROMPTS["prompts"] = <<  <<97>>, <<97>>  >>

\* C15: for every pair of code strings, equal ones included, the key
\* /execute derives for the one differs from the key /run derives for the
\* other: the first begins with "tool:", the second with "demo:".
C15_NamespacesDisjoint ==
  calc.op = "keys" =>
    /\ calc.tool # calc.demo
    /\ SubSeq(calc.demo, 1, 5) = <<100, 101, 109, 111, 58>>
    /\ calc.tool # NullText => SubSeq(calc.tool, 1, 5) = <<116, 111, 111, 108, 58>>

\* the code "a" through both routes: "tool:2p" and "demo:2p"
C15_Witness ==
  /\ calc.op = "keys"
  /\ calc.a = <<97>>
  /\ calc.b = <<97>>
  /\ calc.tool = <<116, 111, 111, 108, 58, 50, 112>>
  /\ calc.demo = <<100, 101, 109, 111, 58, 50, 112>>

\* C16: a /run request sent one write to the prompt log, and by the time
\* it derived its key, checked the LOADER binding, was dispatched or ended,
\* RuntimeUnavailable and a failed invocation included, that write had
\* settled: taken by the object, or rejected and the rejection swallowed.
\* A /execute request sent no write and the object took none from it.
C16_AppendBeforeExecution ==
  \A r \in Req :
    /\ req[r].route = "run" =>
         /\ req[r].writes = 1
         /\ (req[r].isolateId # <<>> \/ Dispatched(r) \/ req[r].pc \in {"fetching", "done"})
            => /\ req[r].wrote \in {"ok", "failed"}
               /\ req[r].wrote = "ok" => req[r].at # 0
    /\ req[r].route = "execute" =>
         /\ req[r].writes = 0
         /\ req[r].wrote = "no"
         /\ req[r].at = 0
         /\ req[r].pc \notin {"writing", "wrote"}

\* a /run request whose module threw, its prompt in the log, and a
\* /execute request that got its result and left the log as it was
C16_Witness ==
  /\ req[1].route = "run"
  /\ req[1].prompt = <<97>>
  /\ req[1].wrote = "ok"
  /\ req[1].outcome.tag = "Uncaught"
  /\ req[2].route = "execute"
  /\ req[2].outcome.tag = "Result"
  /\ PROMPTS["prompts"] = <<  <<97>>  >>

\* a /run request that ended in RuntimeUnavailable, its prompt in the log
C16_UnavailableWitness ==
  /\ ~LOADER
  /\ req[1].route = "run"
  /\ req[1].outcome.tag = "RuntimeUnavailable"
  /\ req[1].wrote = "ok"
  /\ PROMPTS["prompts"] = <<  <<97>>  >>

\* C17: the text /run writes to the log is the prompt when the prompt has
\* between 1 and 16384 characters and the empty text otherwise, and the
\* text it hands to the module is the text written when that is not empty
\* and the prompt as submitted otherwise.
C17_ValidationNeverBlocks ==
  calc.op = "run" =>
    /\ calc.body = IF Len(calc.prompt) >= 1 /\ Len(calc.prompt) <= 16384
                   THEN calc.prompt ELSE <<>>
    /\ calc.testInput = IF calc.body # <<>> THEN calc.body ELSE calc.prompt

\* a prompt of 16385 characters: the empty text to the log, the whole
\* prompt to the module
C17_Witness ==
  /\ calc.op = "run"
  /\ Len(calc.prompt) = 16385
  /\ calc.decodes = 3
  /\ calc.body = <<>>
  /\ calc.testInput = calc.prompt

====
